---- MODULE Spec2Model ----
(***************************************************************************)
(* Model of src/app.py: the three-stage record pipeline                    *)
(*   filter_unwanted_records -> sort_dataframe ->                          *)
(*   calculate_payment_allocation                                          *)
(* as main() runs it on a table returned by load_excel_file, with the      *)
(* column names its select boxes give, and each of the three functions     *)
(* called on its own with its default column names.                        *)
(*                                                                         *)
(* A DataFrame is an object on a heap (two names may denote one object):   *)
(*   [columns : set of column names,                                       *)
(*    rows    : sequence of [label : row label, cells : column -> cell]]   *)
(* A cell is [k, s, n]:                                                    *)
(*   k = "str"  a Python str, s its characters                             *)
(*   k = "num"  a number, n its value (whole amounts only)                 *)
(*   k = "ts"   a Timestamp, n = year*10000 + month*100 + day              *)
(*   k = "nan"  a missing value (NaN / None / NaT)                         *)
(* Column names are romanised: Teiketsubi is the source's agreement-date   *)
(* column, Zandaka its balance column, RuisekiZandaka the cumulative       *)
(* balance column the allocator adds.                                      *)
(***************************************************************************)
EXTENDS Integers, Sequences, FiniteSets, TLC

VARIABLES pc, heap, df, args, filtered_df, sorted_df, result,
          payment_amount, payment_date

vars == <<pc, heap, df, args, filtered_df, sorted_df, result,
          payment_amount, payment_date>>

\* ------------------------------------------------------------- bounds
MaxRowsFilter == 2
MaxRowsSort == 3
MaxRowsAlloc == 3

\* ------------------------------------------------------- column names
IndexNo == "IndexNo"
Teiketsubi == "Teiketsubi"
From == "From"
Zandaka == "Zandaka"
cum_col == "RuisekiZandaka"

\* the default values of the column parameters of the three functions
DefaultArgs ==
    [index_col |-> IndexNo, date_col1 |-> Teiketsubi, date_col2 |-> From,
     balance_col |-> Zandaka, from_col |-> From]

\* list(df.columns) of the sheets read: the columns a sheet has, in this
\* order
ColumnOrder == <<IndexNo, Teiketsubi, From, Zandaka>>

available_cols(t) == SelectSeq(ColumnOrder, LAMBDA c : c \in t.columns)

\* st.sidebar.selectbox(..., available_cols, index=available_cols.index(name)
\* if name in available_cols else 0), left at its default: the named
\* column when the sheet has it, the first column otherwise
selectbox(t, name) ==
    IF name \in t.columns THEN name ELSE available_cols(t)[1]

\* the column names main hands to the stages; the allocator gets date_col2
\* for its from_col
MainArgs(t) ==
    [index_col |-> selectbox(t, IndexNo),
     date_col1 |-> selectbox(t, Teiketsubi),
     date_col2 |-> selectbox(t, From),
     balance_col |-> selectbox(t, Zandaka),
     from_col |-> selectbox(t, From)]

\* -------------------------------------------------------------- cells
Str(chars) == [k |-> "str", s |-> chars, n |-> 0]
Num(v) == [k |-> "num", s |-> <<>>, n |-> v]
Ts(ymd) == [k |-> "ts", s |-> <<>>, n |-> ymd]
NaN == [k |-> "nan", s |-> <<>>, n |-> 0]

\* df[col] = values: the column is replaced (or added) in place
SetColumn(t, col, values) ==
    [columns |-> t.columns \cup {col},
     rows |-> [i \in 1..Len(t.rows) |->
                 [label |-> t.rows[i].label,
                  cells |-> (col :> values[i]) @@ t.rows[i].cells]]]

\* df[mask]: boolean indexing keeps the rows whose mask entry is true,
\* in order, with their labels
RECURSIVE BoolIndex(_, _)
BoolIndex(rows, mask) ==
    IF rows = <<>> THEN <<>>
    ELSE LET n == Len(rows)
             front == BoolIndex(SubSeq(rows, 1, n - 1), SubSeq(mask, 1, n - 1))
         IN IF mask[n] THEN Append(front, rows[n]) ELSE front

\* --------------------------------------------- str accessor predicates
str_startswith(s, pat) ==
    Len(s) >= Len(pat) /\ SubSeq(s, 1, Len(pat)) = pat

str_endswith(s, pat) ==
    Len(s) >= Len(pat) /\ SubSeq(s, Len(s) - Len(pat) + 1, Len(s)) = pat

str_contains(s, pat) ==
    \E i \in 1..(Len(s) - Len(pat) + 1) : SubSeq(s, i, i + Len(pat) - 1) = pat

\* the element-wise .str methods with na=False: a cell that is not a str
\* gives NaN, which na=False turns into False
StartsWithNaFalse(cell, pat) == cell.k = "str" /\ str_startswith(cell.s, pat)
EndsWithNaFalse(cell, pat) == cell.k = "str" /\ str_endswith(cell.s, pat)
ContainsNaFalse(cell, pat) == cell.k = "str" /\ str_contains(cell.s, pat)

BAPE == <<"B", "A", "P", "E">>
AUIM == <<"A", "U", "I", "M">>
SWAP == <<"S", "W", "A", "P">>
BAPG == <<"B", "A", "P", "G">>
OSE == <<"O", "S", "E">>

\* the five conditions, one boolean per row each
conditions(cell) ==
    << StartsWithNaFalse(cell, BAPE),
       EndsWithNaFalse(cell, AUIM),
       ContainsNaFalse(cell, SWAP),
       StartsWithNaFalse(cell, BAPG),
       ContainsNaFalse(cell, OSE) >>

\* pd.concat(conditions, axis=1).any(axis=1)
delete_mask(t, index_col) ==
    [i \in 1..Len(t.rows) |->
        \E j \in 1..5 : conditions(t.rows[i].cells[index_col])[j]]

\* The .str accessor exists only on a column of object dtype.
\* load_excel_file gives a column object dtype when a cell of it is a str
\* (and when the sheet has no data rows); a column whose cells are all
\* blank is read as float64, all NaN, and .str on it raises
\* AttributeError.
StrAccessorRaises(t, col) ==
    /\ Len(t.rows) > 0
    /\ \A i \in 1..Len(t.rows) : t.rows[i].cells[col].k # "str"

\* filter_unwanted_records: what it returns.
\*   [ret |-> "same"]             the argument itself (column missing)
\*   [ret |-> "raise"]            AttributeError leaves the function
\*   [ret |-> "new", table |-> t] a new DataFrame, df[~delete_mask].copy()
filter_unwanted_records(t, index_col) ==
    IF index_col \notin t.columns THEN [ret |-> "same"]
    ELSE IF StrAccessorRaises(t, index_col) THEN [ret |-> "raise"]
    ELSE LET dm == delete_mask(t, index_col)
         IN [ret |-> "new",
             table |-> [columns |-> t.columns,
                        rows |-> BoolIndex(t.rows,
                                  [i \in 1..Len(t.rows) |-> ~dm[i]])]]

\* ------------------------------------------------- dates and numbers
DigitChars == <<"0", "1", "2", "3", "4", "5", "6", "7", "8", "9">>

IsDigit(c) == \E d \in 1..10 : DigitChars[d] = c

DigitVal(c) == (CHOOSE d \in 1..10 : DigitChars[d] = c) - 1

AllDigits(s) == \A i \in 1..Len(s) : IsDigit(s[i])

\* the value of a non-empty string of digits
RECURSIVE DigitsVal(_)
DigitsVal(s) ==
    IF Len(s) = 1 THEN DigitVal(s[1])
    ELSE 10 * DigitsVal(SubSeq(s, 1, Len(s) - 1)) + DigitVal(s[Len(s)])

\* str(n) for n >= 0
RECURSIVE IntToChars(_)
IntToChars(v) ==
    IF v < 10 THEN <<DigitChars[v + 1]>>
    ELSE Append(IntToChars(v \div 10), DigitChars[(v % 10) + 1])

\* zero padding to a width, as %Y, %m and the format spec :02d do
RECURSIVE ZeroPad(_, _)
ZeroPad(s, width) == IF Len(s) >= width THEN s ELSE ZeroPad(<<"0">> \o s, width)

IsLeap(y) == (y % 4 = 0 /\ y % 100 # 0) \/ y % 400 = 0

DaysInMonth(y, m) ==
    IF m = 2 THEN (IF IsLeap(y) THEN 29 ELSE 28)
    ELSE IF m \in {4, 6, 9, 11} THEN 30 ELSE 31

Year(ymd) == ymd \div 10000
Month(ymd) == (ymd \div 100) % 100

\* A str is read as a date when it is "YYYY-MM-DD" naming a calendar day;
\* every other str of the model's tables fails to parse.
ParsesAsDate(s) ==
    /\ Len(s) = 10
    /\ s[5] = "-" /\ s[8] = "-"
    /\ AllDigits(SubSeq(s, 1, 4)) /\ AllDigits(SubSeq(s, 6, 7))
    /\ AllDigits(SubSeq(s, 9, 10))
    /\ DigitsVal(SubSeq(s, 6, 7)) \in 1..12
    /\ DigitsVal(SubSeq(s, 9, 10)) \in
          1..DaysInMonth(DigitsVal(SubSeq(s, 1, 4)), DigitsVal(SubSeq(s, 6, 7)))

ParseDate(s) ==
    DigitsVal(SubSeq(s, 1, 4)) * 10000 + DigitsVal(SubSeq(s, 6, 7)) * 100
        + DigitsVal(SubSeq(s, 9, 10))

\* pd.to_datetime(..., errors='coerce') on one cell: a Timestamp stays, a
\* str that parses becomes a Timestamp, a str that does not and a blank
\* become NaT (the date columns of the model's tables hold Timestamps,
\* strs and blanks)
to_datetime(cell) ==
    IF cell.k = "ts" THEN cell
    ELSE IF cell.k = "str" /\ ParsesAsDate(cell.s) THEN Ts(ParseDate(cell.s))
    ELSE NaN

\* df[col] = pd.to_datetime(df[col], errors='coerce')
CoerceDates(t, col) ==
    SetColumn(t, col, [i \in 1..Len(t.rows) |-> to_datetime(t.rows[i].cells[col])])

\* A str is read as a number when it is digits with an optional minus sign
ParsesAsNumber(s) ==
    \/ Len(s) >= 1 /\ AllDigits(s)
    \/ Len(s) >= 2 /\ s[1] = "-" /\ AllDigits(SubSeq(s, 2, Len(s)))

ParseNumber(s) ==
    IF s[1] = "-" THEN 0 - DigitsVal(SubSeq(s, 2, Len(s))) ELSE DigitsVal(s)

\* pd.to_numeric(..., errors='coerce').fillna(0) on one cell (the balance
\* columns of the model's tables hold numbers, strs and blanks)
to_numeric_fillna(cell) ==
    IF cell.k = "num" THEN cell.n
    ELSE IF cell.k = "str" /\ ParsesAsNumber(cell.s) THEN ParseNumber(cell.s)
    ELSE 0

\* .dt.strftime('%Y-%m') on one cell: NaT gives NaN
strftime_Ym(cell) ==
    IF cell.k = "ts"
    THEN Str(ZeroPad(IntToChars(Year(cell.n)), 4) \o <<"-">>
             \o ZeroPad(IntToChars(Month(cell.n)), 2))
    ELSE NaN

\* f"{payment_date.year}-{payment_date.month:02d}"
target_month(date) ==
    Str(IntToChars(Year(date)) \o <<"-">> \o ZeroPad(IntToChars(Month(date)), 2))

\* ------------------------------------------------------- sort_values
\* One key position of sort_values(..., na_position='last'), ascending:
\* NaT is after every Timestamp and equal to NaT.
KeyLess(x, y) ==
    IF x.k = "nan" THEN FALSE
    ELSE IF y.k = "nan" THEN TRUE
    ELSE x.n < y.n

KeyEqual(x, y) == ~KeyLess(x, y) /\ ~KeyLess(y, x)

\* the composite key [date_col1, date_col2]
RowLess(r1, r2, date_col1, date_col2) ==
    \/ KeyLess(r1.cells[date_col1], r2.cells[date_col1])
    \/ /\ KeyEqual(r1.cells[date_col1], r2.cells[date_col1])
       /\ KeyLess(r1.cells[date_col2], r2.cells[date_col2])

\* an insertion that puts a row before the rows it ties with
InsertRowUnstable(sorted, r, date_col1, date_col2) ==
    LET before == {i \in 1..Len(sorted) : RowLess(sorted[i], r, date_col1, date_col2)}
        k == Cardinality(before)
    IN SubSeq(sorted, 1, k) \o <<r>> \o SubSeq(sorted, k + 1, Len(sorted))

\* A row that comes later in the input goes after every row it is not
\* less than: the sort on several keys is a stable one.
InsertRow(sorted, r, date_col1, date_col2) ==
    LET before == {i \in 1..Len(sorted) : ~RowLess(r, sorted[i], date_col1, date_col2)}
        k == Cardinality(before)
    IN SubSeq(sorted, 1, k) \o <<r>> \o SubSeq(sorted, k + 1, Len(sorted))

RECURSIVE sort_values(_, _, _)
sort_values(rows, date_col1, date_col2) ==
    IF rows = <<>> THEN <<>>
    ELSE InsertRow(sort_values(SubSeq(rows, 1, Len(rows) - 1), date_col1, date_col2),
                   rows[Len(rows)], date_col1, date_col2)

\* the dates parsed before the columns are checked
sort_dataframe_eager(t, date_col1, date_col2) ==
    LET have == {c \in {date_col1, date_col2} : c \in t.columns}
        c1 == IF date_col1 \in have THEN CoerceDates(t, date_col1) ELSE t
        c2 == IF date_col2 \in have THEN CoerceDates(c1, date_col2) ELSE c1
    IN IF have # {date_col1, date_col2}
       THEN [arg |-> c2, ret |-> "same"]
       ELSE [arg |-> c2, ret |-> "new",
             table |-> [columns |-> c2.columns,
                        rows |-> sort_values(c2.rows, date_col1, date_col2)]]

\* sort_dataframe: what it does to its argument and what it returns.
\*   arg : the argument DataFrame after the call (coerced in place)
\*   ret : "same" (the argument itself) or "new" with the sorted table
sort_dataframe(t, date_col1, date_col2) ==
    LET missing_cols == {c \in {date_col1, date_col2} : c \notin t.columns}
    IN IF missing_cols # {}
       THEN [arg |-> t, ret |-> "same"]
       ELSE LET coerced == CoerceDates(CoerceDates(t, date_col1), date_col2)
            IN [arg |-> coerced, ret |-> "new",
                table |-> [columns |-> coerced.columns,
                           rows |-> sort_values(coerced.rows, date_col1, date_col2)]]

\* ------------------------------------- calculate_payment_allocation
RECURSIVE SumSeq(_)
SumSeq(xs) ==
    IF xs = <<>> THEN 0 ELSE SumSeq(SubSeq(xs, 1, Len(xs) - 1)) + xs[Len(xs)]

\* a running total that forgets the rows before
cumsum_single(xs) == xs

\* Series.cumsum(): the running total, one entry per row
cumsum(xs) == [i \in 1..Len(xs) |-> SumSeq(SubSeq(xs, 1, i))]

\* the comparison with > in place of >=
exceeded_mask_strict(cum, amount) == [i \in 1..Len(cum) |-> cum[i] > amount]

\* target_records['RuisekiZandaka'] >= payment_amount
exceeded_mask(cum, amount) == [i \in 1..Len(cum) |-> cum[i] >= amount]

\* exceeded_mask.idxmax(): the label of the first row whose entry is true
idxmax(rows, mask) ==
    rows[CHOOSE i \in 1..Len(rows) :
            mask[i] /\ \A j \in 1..(i - 1) : ~mask[j]].label

\* target_records.iloc[:exceed_index] would take the label for a count
loc_slice_as_iloc(rows, label) ==
    SubSeq(rows, 1, IF label < Len(rows) THEN label ELSE Len(rows))

\* target_records.loc[:exceed_index]: the rows from the first one to the
\* row that carries the label, that row included (labels are unique)
loc_slice(rows, label) ==
    SubSeq(rows, 1, CHOOSE i \in 1..Len(rows) : rows[i].label = label)

\* pd.DataFrame()
EmptyDataFrame == [columns |-> {}, rows |-> <<>>]

NoResult == [status |-> "none"]

\* the balance column of a table as numbers
Balances(t, balance_col) ==
    [i \in 1..Len(t.rows) |-> t.rows[i].cells[balance_col].n]

\* target_records[balance_col].sum() would total the whole month
selected_total_all(selected, target_records, balance_col) ==
    SumSeq(Balances(target_records, balance_col))

\* total_balance of the sufficient branch: selected_records[balance_col].sum()
selected_total(selected, target_records, balance_col) ==
    SumSeq(Balances(selected, balance_col))

\* f"{payment_date.year}-{payment_date.month}" would drop the zero padding
same_month_unpadded(cell, date) ==
    strftime_Ym(cell) = Str(IntToChars(Year(date)) \o <<"-">> \o IntToChars(Month(date)))

\* df[from_col].dt.strftime('%Y-%m') == target_month, for one cell
same_month(cell, date) == strftime_Ym(cell) = target_month(date)

\* same_month_mask and target_records = df[same_month_mask].copy()
month_scoped(t, date, from_col) ==
    [columns |-> t.columns,
     rows |-> BoolIndex(t.rows,
                [i \in 1..Len(t.rows) |->
                    same_month(t.rows[i].cells[from_col], date)])]

\* the balance column coerced to numbers
with_numeric_balance(t, balance_col) ==
    SetColumn(t, balance_col,
        [i \in 1..Len(t.rows) |->
            Num(to_numeric_fillna(t.rows[i].cells[balance_col]))])

\* the cumulative balance column added
with_cumulative(t, balance_col) ==
    SetColumn(t, cum_col,
        [i \in 1..Len(t.rows) |-> Num(cumsum(Balances(t, balance_col))[i])])

CumulativeOf(t) == [i \in 1..Len(t.rows) |-> t.rows[i].cells[cum_col].n]

\* the branch taken when exceeded_mask.any()
sufficient_result(target_records, amount, balance_col) ==
    LET exceed_index ==
            idxmax(target_records.rows,
                   exceeded_mask(CumulativeOf(target_records), amount))
        selected_records ==
            [columns |-> target_records.columns,
             rows |-> loc_slice(target_records.rows, exceed_index)]
        total_balance == selected_total(selected_records, target_records, balance_col)
    IN [status |-> "sufficient",
        records |-> selected_records,
        total_balance |-> total_balance,
        split_remainder |-> total_balance - amount,
        payment_amount |-> amount]

\* the branch taken otherwise
insufficient_result(target_records, amount, balance_col) ==
    LET total_balance == SumSeq(Balances(target_records, balance_col))
    IN [status |-> "insufficient",
        records |-> target_records,
        total_balance |-> total_balance,
        shortage |-> amount - total_balance,
        payment_amount |-> amount]

no_records_result(amount) ==
    [status |-> "no_records",
     records |-> EmptyDataFrame,
     total_balance |-> 0,
     shortage |-> amount]

\* the allocation over a non-empty month-scoped table
allocate_over(month_table, amount, balance_col) ==
    LET target_records ==
            with_cumulative(with_numeric_balance(month_table, balance_col), balance_col)
    IN IF \E i \in 1..Len(target_records.rows) :
             exceeded_mask(CumulativeOf(target_records), amount)[i]
       THEN sufficient_result(target_records, amount, balance_col)
       ELSE insufficient_result(target_records, amount, balance_col)

\* The body of the try block.  exc: an exception was raised in it (KeyError
\* for a missing column); arg: the argument DataFrame as the body leaves it.
try_body(t, amount, date, balance_col, from_col) ==
    IF from_col \notin t.columns THEN [exc |-> TRUE, arg |-> t]
    ELSE LET coerced == CoerceDates(t, from_col)
         IN IF month_scoped(coerced, date, from_col).rows = <<>>
            THEN [exc |-> FALSE, arg |-> coerced,
                  result |-> no_records_result(amount)]
            ELSE IF balance_col \notin coerced.columns
            THEN [exc |-> TRUE, arg |-> coerced]
            ELSE [exc |-> FALSE, arg |-> coerced,
                  result |-> allocate_over(month_scoped(coerced, date, from_col),
                                           amount, balance_col)]

\* the function without its except clause: the exception leaves it
calculate_payment_allocation_no_except(t, amount, date, balance_col, from_col) ==
    LET body == try_body(t, amount, date, balance_col, from_col)
    IN IF body.exc
       THEN [raised |-> TRUE, arg |-> body.arg, result |-> NoResult]
       ELSE [raised |-> FALSE, arg |-> body.arg, result |-> body.result]

\* calculate_payment_allocation: except Exception turns a failure of the
\* body into the error result
calculate_payment_allocation(t, amount, date, balance_col, from_col) ==
    LET body == try_body(t, amount, date, balance_col, from_col)
    IN IF body.exc
       THEN [raised |-> FALSE, arg |-> body.arg,
             result |-> [status |-> "error",
                         records |-> EmptyDataFrame,
                         total_balance |-> 0]]
       ELSE [raised |-> FALSE, arg |-> body.arg, result |-> body.result]

\* ---------------------------------------------------- inputs of main
\* payment_amount: st.sidebar.number_input(min_value=0.0)
Amounts == {0, 2, 5}

\* payment_date: st.sidebar.date_input
DueDates == {20240515, 20240701}

AllColumns == {IndexNo, Teiketsubi, From, Zandaka}

Chars_IMP001 == <<"I", "M", "P", "0", "0", "1">>
Chars_20240503 == <<"2", "0", "2", "4", "-", "0", "5", "-", "0", "3">>
Chars_20240510 == <<"2", "0", "2", "4", "-", "0", "5", "-", "1", "0">>
Chars_abc == <<"a", "b", "c">>

MkRow(idx, d1, fr, bal) ==
    (IndexNo :> idx) @@ (Teiketsubi :> d1) @@ (From :> fr) @@ (Zandaka :> bal)

\* identifier cells: a hit and a near miss for each predicate, an empty
\* str and a blank
IdxPool ==
    { Str(<<"B", "A", "P", "E", "1", "0", "0", "1">>),
      Str(<<"X", "B", "A", "P", "E">>),
      Str(<<"b", "a", "p", "e", "1">>),
      Str(<<"X", "A", "U", "I", "M">>),
      Str(<<"A", "U", "I", "M", "X">>),
      Str(<<"X", "S", "W", "A", "P", "Y">>),
      Str(<<"B", "A", "P", "G", "7">>),
      Str(<<"R", "O", "S", "E", "S">>),
      Str(<<"O", "S">>),
      Str(Chars_IMP001),
      Str(<<>>),
      NaN }

\* the agreement date is text, or a Timestamp in one kind of row
FilterRows ==
    { MkRow(idx, Str(Chars_20240510), Str(Chars_20240503), Num(3)) : idx \in IdxPool }
        \cup { MkRow(Str(Chars_IMP001), Ts(20240510), Str(Chars_20240503), Num(3)) }

SortRows ==
    { MkRow(Str(Chars_IMP001), d1, fr, Num(3)) :
        d1 \in {Ts(20240503), Str(Chars_20240510), Str(Chars_abc)},
        fr \in {Ts(20240510), Str(Chars_20240503), NaN} }

AllocRows ==
    { MkRow(Str(Chars_IMP001), Ts(20240501), c[1], c[2]) :
        c \in { <<Ts(20240503), Num(3)>>,
                <<Ts(20240503), Num(0)>>,
                <<Ts(20240510), Num(0 - 2)>>,
                <<Str(Chars_20240510), Str(<<"2">>)>>,
                <<Ts(20240510), Str(Chars_abc)>>,
                <<Ts(20230510), Num(5)>>,
                <<NaN, Num(5)>>,
                <<Str(Chars_abc), NaN>> } }

FilterSchemas ==
    { AllColumns, AllColumns \ {IndexNo}, AllColumns \ {Teiketsubi},
      AllColumns \ {From}, AllColumns \ {IndexNo, Teiketsubi} }

SortSchemas == { AllColumns, AllColumns \ {Teiketsubi}, AllColumns \ {From} }

AllocSchemas == { AllColumns, AllColumns \ {From}, AllColumns \ {Zandaka} }

\* load_excel_file: a table with a RangeIndex (labels 0, 1, ...)
Tables(pool, schemas, maxRows) ==
    { [columns |-> cols,
       rows |-> [i \in 1..Len(cells) |->
                   [label |-> i - 1,
                    cells |-> [c \in cols |-> cells[i][c]]]]] :
        cols \in schemas,
        cells \in UNION { [1..n -> pool] : n \in 0..maxRows } }

\* ------------------------------------------------------------ actions
\* args: the column names in use, the functions' defaults until main's
\* select boxes give theirs.  filtered_df, sorted_df: 0 while unassigned.
InitWith(tables) ==
    /\ pc = "loaded"
    /\ \E t \in tables : heap = <<t>>
    /\ df = 1
    /\ args = DefaultArgs
    /\ filtered_df = 0
    /\ sorted_df = 0
    /\ result = NoResult
    /\ payment_amount = 0
    /\ payment_date = 0

InitFilter == InitWith(Tables(FilterRows, FilterSchemas, MaxRowsFilter))
InitSort == InitWith(Tables(SortRows, SortSchemas, MaxRowsSort))
InitAlloc == InitWith(Tables(AllocRows, AllocSchemas, MaxRowsAlloc))

\* main, the column settings: each select box is left on the column of
\* its name when the sheet has it, on the first column otherwise
Bind ==
    /\ pc = "loaded"
    /\ available_cols(heap[df]) # <<>>
    /\ args' = MainArgs(heap[df])
    /\ pc' = "bound"
    /\ UNCHANGED <<heap, df, filtered_df, sorted_df, result,
                   payment_amount, payment_date>>

\* Step 1 of main: filtered_df = filter_unwanted_records(df, index_col)
Filter ==
    /\ pc = "bound"
    /\ LET r == filter_unwanted_records(heap[df], args.index_col)
       IN CASE r.ret = "same" ->
                 /\ filtered_df' = df
                 /\ heap' = heap
                 /\ pc' = "filtered"
            [] r.ret = "raise" ->
                 /\ pc' = "crashed"
                 /\ UNCHANGED <<heap, filtered_df>>
            [] r.ret = "new" ->
                 /\ heap' = Append(heap, r.table)
                 /\ filtered_df' = Len(heap) + 1
                 /\ pc' = "filtered"
    /\ UNCHANGED <<df, args, sorted_df, result, payment_amount, payment_date>>

\* Step 2 of main: sorted_df = sort_dataframe(filtered_df, date_col1,
\* date_col2)
Sort ==
    /\ pc = "filtered"
    /\ LET r == sort_dataframe(heap[filtered_df], args.date_col1, args.date_col2)
           mutated == [heap EXCEPT ![filtered_df] = r.arg]
       IN IF r.ret = "same"
          THEN /\ heap' = mutated
               /\ sorted_df' = filtered_df
          ELSE /\ heap' = Append(mutated, r.table)
               /\ sorted_df' = Len(heap) + 1
    /\ pc' = "sorted"
    /\ UNCHANGED <<df, args, filtered_df, result, payment_amount, payment_date>>

\* Step 3 of main: result = calculate_payment_allocation(sorted_df,
\* payment_amount, payment_date, balance_col, date_col2)
Allocate ==
    /\ pc = "sorted"
    /\ \E amount \in Amounts, date \in DueDates :
         LET r == calculate_payment_allocation(heap[sorted_df], amount, date,
                                               args.balance_col, args.date_col2)
         IN /\ payment_amount' = amount
            /\ payment_date' = date
            /\ heap' = [heap EXCEPT ![sorted_df] = r.arg]
            /\ result' = r.result
            /\ pc' = IF r.raised THEN "crashed" ELSE "allocated"
    /\ UNCHANGED <<df, args, filtered_df, sorted_df>>

\* the table sort_dataframe is called on
SortArg == IF filtered_df # 0 THEN filtered_df ELSE df

\* filter_unwanted_records(df) called with its default column name
CallFilter ==
    /\ pc = "loaded"
    /\ LET r == filter_unwanted_records(heap[df], DefaultArgs.index_col)
       IN CASE r.ret = "same" ->
                 /\ filtered_df' = df
                 /\ heap' = heap
                 /\ pc' = "ret_filter"
            [] r.ret = "raise" ->
                 /\ pc' = "filter_raised"
                 /\ UNCHANGED <<heap, filtered_df>>
            [] r.ret = "new" ->
                 /\ heap' = Append(heap, r.table)
                 /\ filtered_df' = Len(heap) + 1
                 /\ pc' = "ret_filter"
    /\ UNCHANGED <<df, args, sorted_df, result, payment_amount, payment_date>>

\* sort_dataframe(df) called with its default column names, on the loaded
\* table or on what the filter returned
CallSort ==
    /\ pc \in {"loaded", "ret_filter"}
    /\ LET r == sort_dataframe(heap[SortArg], DefaultArgs.date_col1,
                               DefaultArgs.date_col2)
           mutated == [heap EXCEPT ![SortArg] = r.arg]
       IN IF r.ret = "same"
          THEN /\ heap' = mutated
               /\ sorted_df' = SortArg
          ELSE /\ heap' = Append(mutated, r.table)
               /\ sorted_df' = Len(heap) + 1
    /\ pc' = "ret_sort"
    /\ UNCHANGED <<df, args, filtered_df, result, payment_amount, payment_date>>

\* calculate_payment_allocation(df, payment_amount, payment_date) called
\* with its default column names on the loaded table
CallAllocate ==
    /\ pc = "loaded"
    /\ \E amount \in Amounts, date \in DueDates :
         LET r == calculate_payment_allocation(heap[df], amount, date,
                                               DefaultArgs.balance_col,
                                               DefaultArgs.from_col)
         IN /\ payment_amount' = amount
            /\ payment_date' = date
            /\ heap' = [heap EXCEPT ![df] = r.arg]
            /\ result' = r.result
            /\ pc' = IF r.raised THEN "allocate_raised" ELSE "ret_allocate"
    /\ UNCHANGED <<df, args, filtered_df, sorted_df>>

Next ==
    \/ Bind \/ Filter \/ Sort \/ Allocate
    \/ CallFilter \/ CallSort \/ CallAllocate

SpecFilter == InitFilter /\ [][Next]_vars
SpecSort == InitSort /\ [][Next]_vars
SpecAlloc == InitAlloc /\ [][Next]_vars

\* ------------------------------------------- what the claims speak of
\* The five exclusion predicates, written out character by character.
HitsPredicate(cell) ==
    /\ cell.k = "str"
    /\ LET s == cell.s
           n == Len(cell.s)
       IN \/ n >= 4 /\ s[1] = "B" /\ s[2] = "A" /\ s[3] = "P" /\ s[4] = "E"
          \/ n >= 4 /\ s[n - 3] = "A" /\ s[n - 2] = "U" /\ s[n - 1] = "I"
                    /\ s[n] = "M"
          \/ \E i \in 1..n : i + 3 <= n /\ s[i] = "S" /\ s[i + 1] = "W"
                    /\ s[i + 2] = "A" /\ s[i + 3] = "P"
          \/ n >= 4 /\ s[1] = "B" /\ s[2] = "A" /\ s[3] = "P" /\ s[4] = "G"
          \/ \E i \in 1..n : i + 2 <= n /\ s[i] = "O" /\ s[i + 1] = "S"
                    /\ s[i + 2] = "E"

Retained(row) == ~HitsPredicate(row.cells[args.index_col])

\* the steps in which each function is called and the table it is given
FilterCalled ==
    pc = "bound" \/ (pc = "loaded" /\ pc' \in {"ret_filter", "filter_raised"})
FilterReturned == pc' \in {"filtered", "ret_filter"}

SortCalled ==
    pc = "filtered" \/ (pc \in {"loaded", "ret_filter"} /\ pc' = "ret_sort")
SortReturned == pc' \in {"sorted", "ret_sort"}

AllocateCalled ==
    pc = "sorted"
        \/ (pc = "loaded" /\ pc' \in {"ret_allocate", "allocate_raised"})
AllocateArg == IF pc = "sorted" THEN sorted_df ELSE df
AllocateReturned == pc \in {"allocated", "ret_allocate"}

\* The from-date of a record lies in the due date's year and month.
InDueMonth(row, date) ==
    LET d == to_datetime(row.cells[args.from_col])
    IN d.k = "ts" /\ Year(d.n) = Year(date) /\ Month(d.n) = Month(date)

\* The month-scoped subset of a table, in the table's order; a table
\* without the from-date column has no record with a from-date.
MonthScope(t, date) ==
    IF args.from_col \in t.columns
    THEN SelectSeq(t.rows, LAMBDA r : InDueMonth(r, date))
    ELSE <<>>

\* The balance a record contributes: not a number counts as 0.
BalanceOf(row) ==
    IF args.balance_col \in DOMAIN row.cells
    THEN to_numeric_fillna(row.cells[args.balance_col])
    ELSE 0

\* The balance sum of the first k records.
RECURSIVE PrefixBalance(_, _)
PrefixBalance(rows, k) ==
    IF k = 0 THEN 0 ELSE PrefixBalance(rows, k - 1) + BalanceOf(rows[k])

Abs(v) == IF v < 0 THEN 0 - v ELSE v

\* the table the allocator was given, and what it selected
AllocInput == heap[IF pc = "allocated" THEN sorted_df ELSE df]
Scope == MonthScope(AllocInput, payment_date)
Selected == result.records.rows

\* the selected records are the first Len(Selected) records of the scope
SelectedIsPrefix ==
    /\ Len(Selected) <= Len(Scope)
    /\ \A i \in 1..Len(Selected) :
          /\ Selected[i].label = Scope[i].label
          /\ \A c \in AllocInput.columns \ {args.from_col, args.balance_col} :
                Selected[i].cells[c] = Scope[i].cells[c]
          /\ Selected[i].cells[args.from_col]
                = to_datetime(Scope[i].cells[args.from_col])
          /\ Selected[i].cells[args.balance_col] = Num(BalanceOf(Scope[i]))

\* ---------------------------------------------------------------- C1
\* C1: when the table has the identifier column, filter_unwanted_records
\* returns exactly the records, in input order, whose index_key hits none
\* of the five predicates; a record with a null index_key is retained.
C1_FilterCompleteness ==
    [][(FilterCalled /\ args.index_col \in heap[df].columns) =>
          /\ FilterReturned
          /\ heap'[filtered_df'].columns = heap[df].columns
          /\ heap'[filtered_df'].rows = SelectSeq(heap[df].rows, Retained)]_vars

\* What does hold: whenever the filter returns, it returns those records.
FilterCompleteWhenReturned ==
    [][(FilterCalled /\ FilterReturned /\ args.index_col \in heap[df].columns) =>
          /\ heap'[filtered_df'].columns = heap[df].columns
          /\ heap'[filtered_df'].rows = SelectSeq(heap[df].rows, Retained)]_vars

\* ---------------------------------------------------------------- C2
\* C2: selected_records is a contiguous prefix, in the table's order, of
\* the month-scoped subset: up to and including the first record whose
\* cumulative balance is >= the payment amount when the status is
\* sufficient, the whole subset when it is insufficient.
C2_AllocationPrefix ==
    AllocateReturned =>
        /\ SelectedIsPrefix
        /\ result.status = "sufficient" =>
              /\ Len(Selected) >= 1
              /\ PrefixBalance(Scope, Len(Selected)) >= payment_amount
              /\ \A k \in 1..(Len(Selected) - 1) :
                    PrefixBalance(Scope, k) < payment_amount
        /\ result.status = "insufficient" => Len(Selected) = Len(Scope)

\* a sufficient allocation in main that stops before the end of the scope,
\* in a table whose first record is of another month
C2_Witness ==
    /\ pc = "allocated"
    /\ result.status = "sufficient"
    /\ Len(Selected) = 1
    /\ Len(Scope) = 2
    /\ Len(AllocInput.rows) = 3
    /\ ~InDueMonth(AllocInput.rows[1], payment_date)

\* ---------------------------------------------------------------- C3
\* C3 as stated: with status sufficient, total_balance >= payment_amount,
\* the remainder is >= 0, and the selected records without the last one
\* sum to strictly less than payment_amount, for any payment amount >= 0.
C3_SufficiencyAsStated ==
    (AllocateReturned /\ result.status = "sufficient") =>
        /\ result.total_balance >= payment_amount
        /\ result.split_remainder = result.total_balance - payment_amount
        /\ result.split_remainder >= 0
        /\ PrefixBalance(Selected, Len(Selected) - 1) < payment_amount

\* C3 amended: the same, the last part holding unless the payment amount
\* is 0 and a single record is selected (what remains is then the empty
\* prefix, whose sum 0 is not below 0).
C3_SufficiencyBoundary ==
    (AllocateReturned /\ result.status = "sufficient") =>
        /\ result.total_balance >= payment_amount
        /\ result.split_remainder = result.total_balance - payment_amount
        /\ result.split_remainder >= 0
        /\ (payment_amount > 0 \/ Len(Selected) > 1) =>
              PrefixBalance(Selected, Len(Selected) - 1) < payment_amount

\* in main, payment amount 0 met only by the second record, after a
\* negative one
C3_Witness ==
    /\ pc = "allocated"
    /\ result.status = "sufficient"
    /\ payment_amount = 0
    /\ Len(Selected) = 2
    /\ BalanceOf(Selected[1]) < 0

\* ---------------------------------------------------------------- C4
\* C4: with status insufficient, the balance sum of the whole month-scoped
\* subset is strictly below payment_amount, selected_records is that whole
\* subset, and the shortfall payment_amount - total_balance is > 0.
C4_InsufficiencyBoundary ==
    (AllocateReturned /\ result.status = "insufficient") =>
        /\ PrefixBalance(Scope, Len(Scope)) < payment_amount
        /\ SelectedIsPrefix
        /\ Len(Selected) = Len(Scope)
        /\ result.shortage = payment_amount - result.total_balance
        /\ result.shortage > 0

\* in main, an insufficient allocation over a scope whose running sum goes
\* down
C4_Witness ==
    /\ pc = "allocated"
    /\ result.status = "insufficient"
    /\ Len(Scope) >= 2
    /\ \E k \in 1..(Len(Scope) - 1) :
          PrefixBalance(Scope, k) > PrefixBalance(Scope, k + 1)

\* ---------------------------------------------------------------- C5
\* C5: whatever the status, total_balance is the balance sum (not a number
\* counted as 0) over exactly the selected records, and the remainder or
\* the shortfall is the absolute difference of total_balance and the
\* payment amount.
C5_Conservation ==
    AllocateReturned =>
        /\ Len(Selected) <= Len(Scope)
        /\ result.total_balance = PrefixBalance(Scope, Len(Selected))
        /\ result.total_balance = PrefixBalance(Selected, Len(Selected))
        /\ result.status = "sufficient" =>
              result.split_remainder = Abs(result.total_balance - payment_amount)
        /\ result.status \in {"insufficient", "no_records"} =>
              result.shortage = Abs(result.total_balance - payment_amount)

\* in main, a sufficient allocation that leaves records of the scope out
\* and counts a balance given as text
C5_Witness ==
    /\ pc = "allocated"
    /\ result.status = "sufficient"
    /\ Len(Selected) < Len(Scope)
    /\ \E i \in 1..Len(Selected) : Scope[i].cells[args.balance_col].k = "str"

\* ---------------------------------------------------------------- C6
\* C6 as stated: the status is no_records if and only if no record of the
\* input table has a from-date in the due date's year and month; then
\* selected_records is empty, total_balance 0, the shortfall the amount.
C6_NoRecordsAsStated ==
    AllocateReturned =>
        /\ result.status = "no_records" <=> Scope = <<>>
        /\ result.status = "no_records" =>
              /\ Selected = <<>>
              /\ result.total_balance = 0
              /\ result.shortage = payment_amount

\* C6 amended: the same for every input table that has the from-date
\* column (without it the status is error).
C6_NoRecords ==
    (AllocateReturned /\ args.from_col \in AllocInput.columns) =>
        /\ result.status = "no_records" <=> Scope = <<>>
        /\ result.status = "no_records" =>
              /\ Selected = <<>>
              /\ result.total_balance = 0
              /\ result.shortage = payment_amount

\* in main, no_records although the table has a record of the same month
\* of another year
C6_Witness ==
    /\ pc = "allocated"
    /\ result.status = "no_records"
    /\ args.from_col \in AllocInput.columns
    /\ \E i \in 1..Len(AllocInput.rows) :
          LET d == AllocInput.rows[i].cells[args.from_col]
          IN d.k = "ts" /\ Month(d.n) = Month(payment_date)
                /\ Year(d.n) # Year(payment_date)

\* ---------------------------------------------------------------- C7
\* the composite key of a record: a null date counts as later than every
\* date, at each position on its own
DateRank(cell) == IF cell.k = "ts" THEN <<0, cell.n>> ELSE <<1, 0>>

RankLE(a, b) == a[1] < b[1] \/ (a[1] = b[1] /\ a[2] <= b[2])

CompositeLE(r1, r2) ==
    LET a1 == DateRank(r1.cells[args.date_col1])
        b1 == DateRank(r2.cells[args.date_col1])
        a2 == DateRank(r1.cells[args.date_col2])
        b2 == DateRank(r2.cells[args.date_col2])
    IN IF a1 = b1 THEN RankLE(a2, b2) ELSE RankLE(a1, b1)

SameCompositeKey(r1, r2) == CompositeLE(r1, r2) /\ CompositeLE(r2, r1)

PositionOf(rows, label) == CHOOSE i \in 1..Len(rows) : rows[i].label = label

\* the record with its two dates parsed
WithParsedDates(row) ==
    [label |-> row.label,
     cells |-> [c \in DOMAIN row.cells |->
                  IF c \in {args.date_col1, args.date_col2}
                  THEN to_datetime(row.cells[c])
                  ELSE row.cells[c]]]

SortedFrom(input, output) ==
    /\ Len(output) = Len(input)
    /\ \A i \in 1..Len(input) :
          \E j \in 1..Len(output) : output[j] = WithParsedDates(input[i])
    /\ \A i \in 1..(Len(output) - 1) : CompositeLE(output[i], output[i + 1])
    /\ \A i \in 1..Len(output) : \A j \in (i + 1)..Len(output) :
          SameCompositeKey(output[i], output[j]) =>
              PositionOf(input, output[i].label) < PositionOf(input, output[j].label)

\* C7: on a table with both date columns sort_dataframe returns a
\* permutation of its input (the dates parsed) whose adjacent records are
\* in ascending order of (agreement date, from-date), a null date after
\* every date at each position; records with the same composite key keep
\* their input order, and sorting the result again returns it unchanged.
C7_SortStableTotal ==
    [][(SortCalled
          /\ {args.date_col1, args.date_col2} \subseteq heap[SortArg].columns) =>
            /\ SortReturned
            /\ sorted_df' # SortArg
            /\ SortedFrom(heap[SortArg].rows, heap'[sorted_df'].rows)
            /\ sort_dataframe(heap'[sorted_df'], args.date_col1,
                              args.date_col2).table = heap'[sorted_df']]_vars

\* in main, a sorted table of three records, two of them with the same
\* composite key, that is not in its input order and holds a null
\* agreement date
C7_Witness ==
    /\ pc = "sorted"
    /\ sorted_df # filtered_df
    /\ args.date_col1 # args.date_col2
    /\ Len(heap[sorted_df].rows) = 3
    /\ \E i \in 1..2 :
          /\ SameCompositeKey(heap[sorted_df].rows[i], heap[sorted_df].rows[i + 1])
          /\ heap[sorted_df].rows[i].label < heap[sorted_df].rows[i + 1].label
    /\ \E i \in 1..2 :
          heap[sorted_df].rows[i].label > heap[sorted_df].rows[i + 1].label
    /\ \E i \in 1..3 : heap[sorted_df].rows[i].cells[args.date_col1].k = "nan"
    /\ \E i \in 1..3 : heap[sorted_df].rows[i].cells[args.date_col1].k = "ts"

\* ---------------------------------------------------------------- C8
\* C8: calculate_payment_allocation lets no failure escape: it returns a
\* result whose status is sufficient, insufficient, no_records or error,
\* also for a table without the from-date or the balance column, and a
\* failure is the error result with no records and total_balance 0.
C8_NoEscape ==
    [][AllocateCalled =>
          /\ pc' \in {"allocated", "ret_allocate"}
          /\ result'.status \in {"sufficient", "insufficient", "no_records", "error"}
          /\ result'.status = "error" =>
                (result'.records.rows = <<>> /\ result'.total_balance = 0)
          /\ args.from_col \notin heap[AllocateArg].columns =>
                result'.status = "error"
          /\ (/\ args.from_col \in heap[AllocateArg].columns
              /\ args.balance_col \notin heap[AllocateArg].columns
              /\ MonthScope(heap[AllocateArg], payment_date') # <<>>)
                => result'.status = "error"]_vars

\* the error result for a table that has records of the month and no
\* balance column
C8_Witness ==
    /\ pc = "ret_allocate"
    /\ result.status = "error"
    /\ args.from_col \in AllocInput.columns
    /\ args.balance_col \notin AllocInput.columns
    /\ Scope # <<>>

\* ---------------------------------------------------------------- C9
\* C9: without the identifier column filter_unwanted_records returns its
\* input table itself, unchanged; without either date column
\* sort_dataframe returns its input table itself, unchanged, no column
\* parsed; the function returns and what follows it runs on that table.
C9_PassThrough ==
    [][/\ (FilterCalled /\ args.index_col \notin heap[df].columns) =>
             (FilterReturned /\ filtered_df' = df /\ heap' = heap)
       /\ (SortCalled
             /\ ~({args.date_col1, args.date_col2} \subseteq heap[SortArg].columns)) =>
             (SortReturned /\ sorted_df' = SortArg /\ heap' = heap)]_vars

\* both functions passed the loaded table through, its from-date still
\* text
C9_Witness ==
    /\ pc = "ret_sort"
    /\ args.index_col \notin heap[df].columns
    /\ args.date_col1 \notin heap[df].columns
    /\ filtered_df = df
    /\ sorted_df = df
    /\ Len(heap[df].rows) >= 1
    /\ heap[df].rows[1].cells[args.date_col2].k = "str"

\* --------------------------------------------------------------- C10
\* C10: each stage is a pure transformation: after it returns, the table
\* it was given (every table there was) holds the same records with the
\* same field values as before the call.
C10_StagesArePure ==
    [][\A o \in 1..Len(heap) : heap'[o] = heap[o]]_vars

====
